---- MODULE Spec2Model ----
(***************************************************************************)
(* State-machine model of DrugActivityPredictor                            *)
(* (src/test-dataset/new-test-data/03-model-training.py).                  *)
(*                                                                         *)
(* The predictor object holds three dictionaries (models, trained_models,  *)
(* model_scores); the environment holds the caller's dataset and the file  *)
(* system that save_models writes to.  Every method is one action; a       *)
(* method that raises part-way leaves the assignments made before the      *)
(* raise in place, exactly as the Python code does.                        *)
(***************************************************************************)
EXTENDS Integers, Sequences, FiniteSets, TLC

VARIABLES
    models,          \* self.models: identifier -> state of the estimator instance
    trained_models,  \* self.trained_models: dict, as a sequence of [k, v] items
    model_scores,    \* self.model_scores: dict, as a sequence of [k, v] items
    dataset,         \* the caller's (X, y)
    dirs,            \* directories that exist on disk
    files,           \* files on disk: path -> content
    ret,             \* outcome of the latest call
    runs,            \* number of train_models calls made
    saves            \* number of save_models calls made

vars == <<models, trained_models, model_scores, dataset, dirs, files, ret, runs, saves>>

-----------------------------------------------------------------------------
(* Bounds of the model *)

MaxRuns == 2
MaxSaves == 2

(* Program constants *)

TestSizePercent == 20      \* test_size=0.2

-----------------------------------------------------------------------------
(* Python dict: insertion-ordered; assigning to an existing key keeps its  *)
(* position and replaces its value.                                        *)

Keys(d) == [i \in 1..Len(d) |-> d[i].k]

HasKey(d, key) == \E i \in 1..Len(d) : d[i].k = key

Get(d, key) == d[CHOOSE i \in 1..Len(d) : d[i].k = key].v

\* Variant: a list of items, appended to on every assignment.
DictSetAppend(d, key, val) == Append(d, [k |-> key, v |-> val])

DictSet(d, key, val) ==
    IF HasKey(d, key)
    THEN [i \in 1..Len(d) |-> IF d[i].k = key THEN [k |-> key, v |-> val] ELSE d[i]]
    ELSE Append(d, [k |-> key, v |-> val])

-----------------------------------------------------------------------------
(* __init__: the registry is the literal dict of four estimators.  An      *)
(* estimator instance is identified by its registry key (one instance per  *)
(* key, constructed once); its state is the id of the dataset it was last  *)
(* fitted on, 0 when unfitted.                                             *)

Registry == <<"random_forest", "svm", "neural_network", "gradient_boosting">>

Names == {Registry[i] : i \in 1..Len(Registry)}

Unfitted == 0

(* The caller's data: y as the number of members of each class. *)
Datasets ==
    { [id |-> 1, y |-> <<10, 10>>],
      [id |-> 2, y |-> <<12, 8>>],
      [id |-> 3, y |-> <<1, 19>>] }

(* Scores a fit can produce, in units of 1/10000. *)
ScoreRecords ==
    { [accuracy |-> 9000, precision |-> 9012, recall |-> 9000, f1 |-> 8996,
       cv_mean |-> 8875, cv_std |-> 212],
      [accuracy |-> 8500, precision |-> 8571, recall |-> 8500, f1 |-> 8494,
       cv_mean |-> 8625, cv_std |-> 306] }

High == CHOOSE r \in ScoreRecords : \A q \in ScoreRecords : r.f1 >= q.f1
Low == CHOOSE r \in ScoreRecords : \A q \in ScoreRecords : r.f1 <= q.f1

(* The score assignments explored: all tied, the first entry best, a tie   *)
(* between two later entries, the last entry best.                         *)
ScoreProfiles ==
    { [n \in Names |-> High],
      [n \in Names |-> IF n = "random_forest" THEN High ELSE Low],
      [n \in Names |-> IF n \in {"svm", "gradient_boosting"} THEN High ELSE Low],
      [n \in Names |-> IF n = "gradient_boosting" THEN High ELSE Low] }

(* What the environment makes of each estimator in one run: it fits and    *)
(* evaluates ("none"), fit raises ("fit"), or fit succeeds and predict,    *)
(* a metric or cross_val_score raises ("eval").                            *)
Stages == {"none", "fit", "eval"}

Faulty(faults) == {n \in Names : faults[n] # "none"}

(* The fault patterns explored: no estimator fails; the second fails to   *)
(* fit; the last fails in evaluation; all of them fail to fit.             *)
FaultPatterns ==
    { [n \in Names |-> "none"],
      [n \in Names |-> IF n = "svm" THEN "fit" ELSE "none"],
      [n \in Names |-> IF n = "gradient_boosting" THEN "eval" ELSE "none"],
      [n \in Names |-> "fit"] }

NoReturn == <<>>

Init ==
    /\ models = [n \in Names |-> Unfitted]
    /\ trained_models = <<>>
    /\ model_scores = <<>>
    /\ dataset = [id |-> 1, y |-> <<10, 10>>]
    /\ dirs = {}
    /\ files = [p \in {} |-> Unfitted]
    /\ ret = [op |-> "__init__", status |-> "ok", exc |-> "", value |-> NoReturn, arg |-> <<>>]
    /\ runs = 0
    /\ saves = 0

-----------------------------------------------------------------------------
(* train_test_split(X, y, test_size=0.2, random_state=42, stratify=y)      *)

RECURSIVE SumSeq(_)
SumSeq(s) == IF s = <<>> THEN 0 ELSE Head(s) + SumSeq(Tail(s))

NClasses(y) == Cardinality({i \in 1..Len(y) : y[i] > 0})

\* ceil(test_size * n)
NTest(y) == (SumSeq(y) * TestSizePercent + 99) \div 100

\* Variant: a split that does not require two members of every class.
StratifyErrorLax(y) ==
    \/ SumSeq(y) = 0
    \/ NTest(y) < NClasses(y)
    \/ SumSeq(y) - NTest(y) < NClasses(y)

\* TRUE when the stratified split raises ValueError
StratifyError(y) ==
    \/ SumSeq(y) = 0
    \/ \E i \in 1..Len(y) : y[i] = 1
    \/ NTest(y) < NClasses(y)
    \/ SumSeq(y) - NTest(y) < NClasses(y)

-----------------------------------------------------------------------------
(* train_models: the loop over self.models.items().  st carries the three  *)
(* dictionaries and the exception that ended the loop ("" while running).  *)

\* Variant: the model is stored before the evaluation that may raise.
RECURSIVE TrainLoopModelFirst(_, _, _, _, _)
TrainLoopModelFirst(i, st, data, faults, scores) ==
    IF i > Len(Registry) \/ st.exc # "" THEN st
    ELSE LET name == Registry[i] IN
         IF faults[name] = "fit"
         THEN [st EXCEPT !.exc = "EstimatorError"]
         ELSE LET fitted == [st.models EXCEPT ![name] = data.id] IN
              IF faults[name] = "eval"
              THEN [st EXCEPT !.models = fitted,
                              !.trained_models = DictSet(@, name, name),
                              !.exc = "EstimatorError"]
              ELSE TrainLoopModelFirst(i + 1,
                             [st EXCEPT !.models = fitted,
                                        !.trained_models = DictSet(@, name, name),
                                        !.model_scores = DictSet(@, name, scores[name])],
                             data, faults, scores)

RECURSIVE TrainLoop(_, _, _, _, _)
TrainLoop(i, st, data, faults, scores) ==
    IF i > Len(Registry) \/ st.exc # "" THEN st
    ELSE LET name == Registry[i] IN
         IF faults[name] = "fit"
         THEN [st EXCEPT !.exc = "EstimatorError"]
         ELSE LET fitted == [st.models EXCEPT ![name] = data.id] IN
              IF faults[name] = "eval"
              THEN [st EXCEPT !.models = fitted, !.exc = "EstimatorError"]
              ELSE TrainLoop(i + 1,
                             [st EXCEPT !.models = fitted,
                                        !.trained_models = DictSet(@, name, name),
                                        !.model_scores = DictSet(@, name, scores[name])],
                             data, faults, scores)

TrainResult(data, faults, scores) ==
    LET st0 == [models |-> models, trained_models |-> trained_models,
                model_scores |-> model_scores, exc |-> ""]
    IN IF StratifyError(data.y)
       THEN [st0 EXCEPT !.exc = "ValueError"]
       ELSE TrainLoop(1, st0, data, faults, scores)

TrainRet(st, faults) ==
    [op |-> "train_models",
     status |-> IF st.exc = "" THEN "ok" ELSE "raise",
     exc |-> st.exc,
     value |-> NoReturn,
     arg |-> Faulty(faults)]

-----------------------------------------------------------------------------
(* get_best_model: max(self.model_scores.keys(), key=f1) returns the first *)
(* key, in iteration order, whose f1 no other key exceeds; max of an empty *)
(* sequence raises ValueError.                                             *)

\* Variant: a maximum that keeps the last maximal key.
RECURSIVE PyMaxLast(_, _, _)
PyMaxLast(keys, d, best) ==
    IF keys = <<>> THEN best
    ELSE PyMaxLast(Tail(keys), d,
                   IF Get(d, Head(keys)).f1 >= Get(d, best).f1 THEN Head(keys) ELSE best)

RECURSIVE PyMax(_, _, _)
PyMax(keys, d, best) ==
    IF keys = <<>> THEN best
    ELSE PyMax(Tail(keys), d,
               IF Get(d, Head(keys)).f1 > Get(d, best).f1 THEN Head(keys) ELSE best)

BestResult ==
    IF model_scores = <<>>
    THEN [status |-> "raise", exc |-> "ValueError", value |-> NoReturn]
    ELSE LET best_model_name == PyMax(Tail(Keys(model_scores)), model_scores,
                                      Head(Keys(model_scores)))
         IN IF HasKey(trained_models, best_model_name)
            THEN [status |-> "ok", exc |-> "",
                  value |-> <<best_model_name, Get(trained_models, best_model_name)>>]
            ELSE [status |-> "raise", exc |-> "KeyError", value |-> NoReturn]

-----------------------------------------------------------------------------
(* save_models(output_dir)                                                 *)

OutputDirs == {"models"}

\* f"{output_dir}/{name}_model.pkl"
Filename(output_dir, name) == output_dir \o "/" \o name \o "_model.pkl"

\* the artifacts present in output_dir
ArtifactsIn(fs, output_dir) ==
    {p \in DOMAIN fs : \E n \in Names : p = Filename(output_dir, n)}

\* Variant: os.makedirs(output_dir) without exist_ok.
makedirs_strict(ds, path) ==
    IF path \in ds
    THEN [dirs |-> ds, exc |-> "FileExistsError"]
    ELSE [dirs |-> ds \cup {path}, exc |-> ""]

\* os.makedirs(output_dir, exist_ok=True)
makedirs(ds, path) == [dirs |-> ds \cup {path}, exc |-> ""]

\* joblib.dump(model, filename): creates or truncates the file
dump(fs, filename, content) ==
    [p \in DOMAIN fs \cup {filename} |-> IF p = filename THEN content ELSE fs[p]]

(* The loop over self.trained_models.items(); fail is the identifier whose *)
(* dump raises, "none" when every dump succeeds.                           *)
RECURSIVE SaveLoop(_, _, _, _)
SaveLoop(i, st, output_dir, fail) ==
    IF i > Len(trained_models) \/ st.exc # "" THEN st
    ELSE LET name == trained_models[i].k
             model == trained_models[i].v
         IN IF name = fail
            THEN [st EXCEPT !.exc = "OSError"]
            ELSE SaveLoop(i + 1,
                          [st EXCEPT !.files = dump(@, Filename(output_dir, name),
                                                    models[model])],
                          output_dir, fail)

SaveResult(output_dir, fail) ==
    LET md == makedirs(dirs, output_dir)
        st0 == [dirs |-> md.dirs, files |-> files, exc |-> md.exc]
    IN SaveLoop(1, st0, output_dir, fail)

-----------------------------------------------------------------------------
(* generate_report: the text as a sequence of lines, a line as             *)
(* <<label, value text>>.                                                  *)

\* str.upper() on the registry's identifiers
Upper(name) ==
    CASE name = "random_forest" -> "RANDOM_FOREST"
      [] name = "svm" -> "SVM"
      [] name = "neural_network" -> "NEURAL_NETWORK"
      [] name = "gradient_boosting" -> "GRADIENT_BOOSTING"

\* f"{x:.3f}" of x = v/10000 (the report writes the sign between mean and
\* deviation as a plus-minus character, written " +- " here)
Fmt3(v) ==
    LET t == (v + 5) \div 10
        frac == t % 1000
    IN ToString(t \div 1000) \o "." \o
       (IF frac < 10 THEN "00" ELSE IF frac < 100 THEN "0" ELSE "") \o ToString(frac)

Block(name, scores) ==
    << <<"\n" \o Upper(name) \o ":", "">>,
       <<"  Accuracy:  ", Fmt3(scores.accuracy)>>,
       <<"  Precision: ", Fmt3(scores.precision)>>,
       <<"  Recall:    ", Fmt3(scores.recall)>>,
       <<"  F1 Score:  ", Fmt3(scores.f1)>>,
       <<"  CV Score:  ", Fmt3(scores.cv_mean) \o " +- " \o Fmt3(scores.cv_std)>> >>

RECURSIVE Blocks(_)
Blocks(d) == IF d = <<>> THEN <<>> ELSE Block(Head(d).k, Head(d).v) \o Blocks(Tail(d))

ReportHeader == << <<"Model Performance Report", "">>, <<"=", "* 50">> >>

ReportText == ReportHeader \o Blocks(model_scores)

-----------------------------------------------------------------------------
(* The operations.  LoadData is main building the caller's (X, y).         *)

LoadData ==
    /\ \E d \in Datasets : dataset' = d
    /\ dataset' # dataset
    /\ UNCHANGED <<models, trained_models, model_scores, dirs, files, ret, runs, saves>>

\* Variant: a run that also persists what it trained.
train_models_autosave ==
    /\ runs < MaxRuns
    /\ \E faults \in FaultPatterns, scores \in ScoreProfiles :
         LET st == TrainResult(dataset, faults, scores)
             md == makedirs(dirs, "models")
         IN
         /\ models' = st.models
         /\ trained_models' = st.trained_models
         /\ model_scores' = st.model_scores
         /\ ret' = TrainRet(st, faults)
         /\ dirs' = md.dirs
         /\ files' = [p \in DOMAIN files \cup
                              {Filename("models", st.trained_models[i].k) :
                                  i \in 1..Len(st.trained_models)} |->
                         IF \E i \in 1..Len(st.trained_models) :
                                p = Filename("models", st.trained_models[i].k)
                         THEN st.models[CHOOSE n \in Names : p = Filename("models", n)]
                         ELSE files[p]]
    /\ runs' = runs + 1
    /\ UNCHANGED <<dataset, saves>>

train_models ==
    /\ runs < MaxRuns
    /\ \E faults \in FaultPatterns, scores \in ScoreProfiles :
         LET st == TrainResult(dataset, faults, scores) IN
         /\ models' = st.models
         /\ trained_models' = st.trained_models
         /\ model_scores' = st.model_scores
         /\ ret' = TrainRet(st, faults)
    /\ runs' = runs + 1
    /\ UNCHANGED <<dataset, dirs, files, saves>>

get_best_model ==
    /\ ret' = [op |-> "get_best_model", status |-> BestResult.status,
               exc |-> BestResult.exc, value |-> BestResult.value, arg |-> <<>>]
    /\ ret' # ret
    /\ UNCHANGED <<models, trained_models, model_scores, dataset, dirs, files, runs, saves>>

save_models ==
    /\ saves < MaxSaves
    /\ \E output_dir \in OutputDirs, fail \in {"none"} \cup {trained_models[i].k : i \in 1..Len(trained_models)} :
         LET st == SaveResult(output_dir, fail) IN
         /\ dirs' = st.dirs
         /\ files' = st.files
         /\ ret' = [op |-> "save_models",
                    status |-> IF st.exc = "" THEN "ok" ELSE "raise",
                    exc |-> st.exc,
                    value |-> NoReturn,
                    arg |-> [output_dir |-> output_dir, fail |-> fail,
                             existed |-> output_dir \in dirs,
                             replaced |-> {n \in Names :
                                 /\ Filename(output_dir, n) \in DOMAIN files
                                 /\ Filename(output_dir, n) \in DOMAIN st.files
                                 /\ files[Filename(output_dir, n)]
                                      # st.files[Filename(output_dir, n)]}]]
    /\ saves' = saves + 1
    /\ UNCHANGED <<models, trained_models, model_scores, dataset, runs>>

generate_report ==
    /\ ret' = [op |-> "generate_report", status |-> "ok", exc |-> "",
               value |-> ReportText, arg |-> <<>>]
    /\ ret' # ret
    /\ UNCHANGED <<models, trained_models, model_scores, dataset, dirs, files, runs, saves>>

Next ==
    \/ LoadData
    \/ train_models
    \/ get_best_model
    \/ save_models
    \/ generate_report

Spec == Init /\ [][Next]_vars

-----------------------------------------------------------------------------
(* Properties *)

RegistryIndex(name) == CHOOSE i \in 1..Len(Registry) : Registry[i] = name

TrainReturned == ret.op = "train_models" /\ ret.status = "ok"

BestReturned == ret.op = "get_best_model" /\ ret.status = "ok"

OneMemberClass(y) == \E i \in 1..Len(y) : y[i] = 1

StatusLabel == "  Status:    "

(* C1: a run whose split succeeds never aborts on an estimator's failure:  *)
(* it returns normally, every entry that did not fail has a fitted trained *)
(* model and a report, and every failing entry has a report too (the one   *)
(* with status failed).                                                    *)
C1_FaultIsolation ==
    (ret.op = "train_models" /\ ret.exc # "ValueError") =>
        /\ ret.status = "ok"
        /\ \A n \in Names : HasKey(model_scores, n)
        /\ \A n \in Names \ ret.arg :
              HasKey(trained_models, n) /\ models[n] # Unfitted

(* C2: whenever get_best_model returns, the identifier returned has a      *)
(* report, no report has a larger f1, and every report with the same f1    *)
(* belongs to an entry registered no earlier.                              *)
C2_BestIsFirstMax ==
    BestReturned =>
        LET best == ret.value[1] IN
        /\ HasKey(model_scores, best)
        /\ \A i \in 1..Len(model_scores) :
              /\ model_scores[i].v.f1 <= Get(model_scores, best).f1
              /\ model_scores[i].v.f1 = Get(model_scores, best).f1
                    => RegistryIndex(best) <= RegistryIndex(model_scores[i].k)

C2_TieResolved ==
    /\ BestReturned
    /\ RegistryIndex(ret.value[1]) > 1
    /\ \E i \in 1..Len(model_scores) :
          /\ model_scores[i].k # ret.value[1]
          /\ model_scores[i].v.f1 = Get(model_scores, ret.value[1]).f1

(* C3: when there is no viable report (no entry ever produced one),        *)
(* get_best_model fails with NoViableModelError.                           *)
C3_NoViableModelError ==
    (ret.op = "get_best_model" /\ model_scores = <<>>) =>
        ret.status = "raise" /\ ret.exc = "NoViableModelError"

(* C4: when train_models returns, the reports are exactly one per registry *)
(* entry, in registry order, on the first run and on every later one.      *)
C4_OneReportPerEntryInOrder ==
    TrainReturned => Keys(model_scores) = Registry

C4_SecondRunReturned ==
    TrainReturned /\ runs = 2 /\ Len(model_scores) = Len(Registry)

(* C5: a save_models call whose writes all succeed returns normally        *)
(* whether or not the directory and the artifacts existed before it, and   *)
(* leaves the directory holding exactly one artifact per trained model, at *)
(* {output_dir}/{identifier}_model.pkl, with the content of this save.     *)
C5_SaveIdempotent ==
    (ret.op = "save_models" /\ ret.arg.fail = "none") =>
        /\ ret.status = "ok"
        /\ ret.arg.output_dir \in dirs
        /\ ArtifactsIn(files, ret.arg.output_dir) =
              {Filename(ret.arg.output_dir, trained_models[i].k) :
                  i \in 1..Len(trained_models)}
        /\ Cardinality(DOMAIN files) = Len(trained_models)
        /\ \A i \in 1..Len(trained_models) :
              files[Filename(ret.arg.output_dir, trained_models[i].k)]
                 = models[trained_models[i].v]

C5_SavedTwice ==
    /\ ret.op = "save_models" /\ ret.status = "ok" /\ ret.arg.fail = "none"
    /\ saves = 2
    /\ ret.arg.existed
    /\ ret.arg.replaced # {}

(* C6: whenever get_best_model returns, every registry entry has a report. *)
C6_CompleteReportSet ==
    BestReturned => \A n \in Names : HasKey(model_scores, n)

(* C7: a train_models step leaves the files, the directories and the       *)
(* caller's dataset unchanged; the disk changes only in a save_models step.*)
C7_TrainNoSideEffects ==
    [][ /\ (runs' = runs + 1) => (files' = files /\ dirs' = dirs /\ dataset' = dataset)
        /\ (files' # files \/ dirs' # dirs) => (saves' = saves + 1) ]_vars

C7_TrainedNothingOnDisk ==
    TrainReturned /\ trained_models # <<>> /\ dirs = {} /\ DOMAIN files = {}

C9_ReportShowsStatus ==
    (ret.op = "generate_report" /\ model_scores # <<>>) =>
        /\ Cardinality({j \in 1..Len(ret.value) : ret.value[j][1] = StatusLabel})
              = Len(model_scores)
        /\ Cardinality({j \in 1..Len(ret.value) :
                           \E n \in Names : ret.value[j][1] = "\n" \o Upper(n) \o ":"})
              = Len(Registry)

(* C10: when the write of one trained model's artifact fails, the artifact *)
(* of every other trained model is on disk with this save's content.       *)
C10_SaveIsolation ==
    (ret.op = "save_models" /\ ret.arg.fail # "none") =>
        \A i \in 1..Len(trained_models) :
            trained_models[i].k # ret.arg.fail =>
                /\ Filename(ret.arg.output_dir, trained_models[i].k) \in DOMAIN files
                /\ files[Filename(ret.arg.output_dir, trained_models[i].k)]
                      = models[trained_models[i].v]

(* C11: a run that returns starts from unfitted estimators, gives every    *)
(* identifier that already had a trained model a handle to another         *)
(* instance than before, and gives distinct identifiers distinct           *)
(* instances.                                                              *)
C11_FreshInstances ==
    [][ (runs' = runs + 1 /\ ret'.status = "ok") =>
            /\ \A n \in Names :
                  HasKey(trained_models, n) =>
                      /\ models[n] = Unfitted
                      /\ Get(trained_models', n) # Get(trained_models, n)
            /\ \A i, j \in 1..Len(trained_models') :
                  i # j => trained_models'[i].v # trained_models'[j].v ]_vars

KeySet(d) == {d[i].k : i \in 1..Len(d)}

(* C12: in every reachable state the identifiers with a stored trained     *)
(* model are the identifiers with a stored report; get_best_model never    *)
(* fails on a missing handle, and the handle it returns is the one stored  *)
(* under the identifier it returns.                                        *)
C12_ModelsMatchReports ==
    /\ KeySet(trained_models) = KeySet(model_scores)
    /\ ret.op = "get_best_model" => ret.exc # "KeyError"
    /\ BestReturned =>
          /\ HasKey(trained_models, ret.value[1])
          /\ ret.value[2] = Get(trained_models, ret.value[1])

C12_BestAfterAbortedRun ==
    /\ BestReturned
    /\ runs = 2
    /\ Len(model_scores) > 0
    /\ Len(model_scores) < Len(Registry)

====
